---- MODULE Spec2Model ----
(***************************************************************************)
(* Model of the dds_cli delivery pipeline:                                 *)
(*   - LocalFileHandler  (src/dds_cli/file_handler_local.py): the catalog  *)
(*     built at construction, the dedup round trip, the upload status      *)
(*     dict and the streaming generator;                                   *)
(*   - DataDeliverer     (src/code_api/data_deliverer.py): construction    *)
(*     (access checks, input catalog, staging directories) and put and     *)
(*     get against the S3 bucket.                                          *)
(* Each part has its own specification over the shared variables.          *)
(***************************************************************************)
EXTENDS Integers, Sequences, FiniteSets, TLC

VARIABLES
    \* ---- LocalFileHandler -------------------------------------------
    disk,            \* raw file content on the local disk, per catalog key
    catalog,         \* self.data as left by __init__ (history, never changed)
    data,            \* self.data
    failed,          \* self.failed
    status_dict,     \* result of create_upload_status_dict
    lfh_pc,          \* position of the upload session
    response,        \* what requests.get produced in check_previous_upload
    existing_files,  \* value returned by check_previous_upload
    overwrite,       \* the caller's overwrite argument
    user_input,      \* the paths the handler is constructed with
    \* ---- stream_from_file generator ---------------------------------
    gen,             \* state of one stream_from_file generator
    \* ---- DataDeliverer and its S3 bucket ----------------------------
    bucket_exists,   \* self.s3.bucket in self.s3.resource.buckets.all()
    objects,         \* keys of the objects in the bucket
    local_files,     \* files below self.tempdir[1]
    local_dirs,      \* directories below self.tempdir[1]
    dd_call,         \* the last put/get call: its arguments, S3 calls, result
    dd_count,        \* number of put/get calls made
    dd_args,         \* arguments and environment of DataDeliverer.__init__
    dd_self,         \* the DataDeliverer under construction: fields and position
    cwd_dirs,        \* staging directories that exist in the working directory
    \* ---- ProjectStatusManager ---------------------------------------
    ps_env,          \* the update_status arguments, the service's answers, the user's answer
    ps_run           \* the update_status call: what it requested and printed, how it ended

lfhVars == <<disk, catalog, data, failed, status_dict, lfh_pc, response,
             existing_files, overwrite, user_input>>
ddVars == <<bucket_exists, objects, local_files, local_dirs, dd_call, dd_count,
            dd_args, dd_self, cwd_dirs>>
psVars == <<ps_env, ps_run>>
vars == <<lfhVars, gen, ddVars, psVars>>

(***************************************************************************)
(* Bounds                                                                  *)
(***************************************************************************)
MaxFileLen == 4          \* longest raw file, in bytes
SEGMENT_SIZE_RAW == 2    \* FileSegment.SEGMENT_SIZE_RAW scaled to the file lengths
MaxCalls == 2            \* put/get calls in one run
MaxPaths == 2            \* paths in the data tuple, and lines in the pathfile

(***************************************************************************)
(* Generic helpers                                                         *)
(***************************************************************************)
None == "None"

Min(a, b) == IF a < b THEN a ELSE b

SeqsUpTo(S, n) == UNION {[1..m -> S] : m \in 0..n}

\* functions from any subset of D into R (python dicts with keys in D)
Dicts(D, R) == UNION {[K -> R] : K \in SUBSET D}

(***************************************************************************)
(* Files.  A file name is the sequence of its dot-separated parts          *)
(* (<<"a","tar","gz">> is a.tar.gz); a folder is a sequence of directory   *)
(* names relative to the recursion root.                                   *)
(***************************************************************************)
File(folder, name) == [folder |-> folder, name |-> name]

\* the files the user's input expands to
FileUniverse ==
    { File(<<>>, <<"a", "txt">>),
      File(<<"d">>, <<"a", "txt">>),
      File(<<"d">>, <<"b", "tar", "gz">>) }

\* str(folder / path.name): the catalog key
Key(f) == <<f.folder, f.name>>

Keys == {Key(f) : f \in FileUniverse}

FileOfKey(k) == File(k[1], k[2])

\* the resolved absolute path of a file
AbsPath(f) == <<"/", "in">> \o f.folder \o <<f.name>>

\* the staging directory handed to the handler
local_destination == <<"/", "DataDelivery">>

\* first byte of a compressed container
MagicByte == 40

Bytes == {0, MagicByte}

Contents == SeqsUpTo(Bytes, MaxFileLen)

\* Compressor.is_compressed: content inspection of the leading bytes
is_compressed(content) == Len(content) > 0 /\ content[1] = MagicByte

\* uuid.uuid4().hex[:6] values a run can draw
HexPrefixes == {"0a1b2c", "9d8e7f"}

\* hex prefixes of objects registered by earlier deliveries
RegisteredHex == {"0a1b2c", "44e5f6"}

(***************************************************************************)
(* create_encrypted_name                                                   *)
(***************************************************************************)
\* pathlib suffixes: every part after the first, each with its dot
suffixes(name) == SubSeq(name, 2, Len(name))

\* pathlib with_suffix: the last suffix (if any) is replaced
with_suffix(name, suffix) ==
    IF Len(name) > 1 THEN SubSeq(name, 1, Len(name) - 1) \o suffix
    ELSE name \o suffix

create_encrypted_name(raw_name, subpath, no_compression) ==
    LET old_suffix == suffixes(raw_name)
        new_suffix == IF no_compression THEN old_suffix
                      ELSE old_suffix \o <<"zst">>
    IN  [dir  |-> local_destination \o subpath,
         name |-> with_suffix(raw_name, new_suffix \o <<"ccp">>)]

(***************************************************************************)
(* generate_bucket_filepath                                                *)
(***************************************************************************)
generate_bucket_filepath(hex, filename, folder) ==
    [folder |-> folder, hex |-> hex, filename |-> filename]

(***************************************************************************)
(* __collect_file_info_local: the entry built for one file                 *)
(***************************************************************************)
file_info(f, content, hex) ==
    LET compressed     == is_compressed(content)
        path_processed == create_encrypted_name(f.name, f.folder, compressed)
    IN  [path_raw       |-> AbsPath(f),
         subpath        |-> f.folder,
         size_raw       |-> Len(content),
         compressed     |-> compressed,
         path_processed |-> path_processed,
         size_processed |-> 0,
         path_remote    |-> generate_bucket_filepath(hex, path_processed.name, f.folder),
         overwrite      |-> FALSE,
         checksum       |-> <<>>]

(***************************************************************************)
(* check_previous_upload                                                   *)
(***************************************************************************)
\* bodies the metadata service can answer with
JsonBodies ==
    {[json |-> FALSE]}
    \cup {[json |-> TRUE, has_files |-> FALSE]}
    \cup {[json |-> TRUE, has_files |-> TRUE, files_null |-> TRUE]}
    \cup {[json |-> TRUE, has_files |-> TRUE, files_null |-> FALSE, files |-> m] :
            m \in Dicts(Keys, RegisteredHex)}

Responses ==
    {[raised |-> TRUE]}
    \cup {[raised |-> FALSE, ok |-> o, body |-> b] : o \in BOOLEAN, b \in JsonBodies}

\* registered remote path of key k, as the service reports it
RegisteredPath(k, hex) ==
    LET f == FileOfKey(k)
    IN  generate_bucket_filepath(hex, create_encrypted_name(f.name, f.folder, TRUE).name, f.folder)

\* mutation: the response.ok test is missing
check_previous_upload_outcome_no_ok_test(resp) ==
    IF resp.raised THEN "SystemExit"
    ELSE IF ~resp.body.json THEN "SystemExit"
    ELSE IF ~resp.body.has_files THEN "os._exit"
    ELSE "return"

\* outcome of the call: "SystemExit", "os._exit" or "return"
check_previous_upload_outcome(resp) ==
    IF resp.raised THEN "SystemExit"
    ELSE IF ~resp.ok THEN "os._exit"
    ELSE IF ~resp.body.json THEN "SystemExit"
    ELSE IF ~resp.body.has_files THEN "os._exit"
    ELSE "return"

check_previous_upload_value(resp) ==
    IF resp.body.files_null THEN <<>>
    ELSE [k \in DOMAIN resp.body.files |-> RegisteredPath(k, resp.body.files[k])]

check_previous_upload ==
    /\ lfh_pc = "constructed"
    /\ \E resp \in Responses :
        /\ response' = resp
        /\ IF check_previous_upload_outcome(resp) = "return"
           THEN /\ lfh_pc' = "checked"
                /\ existing_files' = check_previous_upload_value(resp)
           ELSE /\ lfh_pc' = check_previous_upload_outcome(resp)
                /\ UNCHANGED existing_files
    /\ UNCHANGED <<disk, catalog, data, failed, status_dict, overwrite, gen, user_input, ddVars, psVars>>

(***************************************************************************)
(* create_upload_status_dict                                               *)
(***************************************************************************)
AlreadyUploadedMessage == "File already uploaded"

in_db(x, existing) == x \in DOMAIN existing

\* mutation: the overwrite test is inverted
skipped_keys_inverted(d, existing, ow) == {x \in DOMAIN d : in_db(x, existing) /\ ow}

\* keys popped from self.data into self.failed
skipped_keys(d, existing, ow) == {x \in DOMAIN d : in_db(x, existing) /\ ~ow}

initial_status ==
    [cancel      |-> FALSE,
     started     |-> FALSE,
     message     |-> "",
     failed_op   |-> None,
     put         |-> [started |-> FALSE, done |-> FALSE],
     add_file_db |-> [started |-> FALSE, done |-> FALSE]]

\* {**self.data.pop(x), **{"message": ...}}
failed_entry(entry, message) ==
    [fld \in DOMAIN entry \cup {"message"} |->
        IF fld = "message" THEN message ELSE entry[fld]]

\* mutation: the overwritten entry keeps its generated remote path
updated_entry_keeps_path(entry, x, existing, ow) ==
    IF in_db(x, existing) /\ ow
    THEN [entry EXCEPT !.overwrite = TRUE]
    ELSE entry

\* the entry of an active key after the loop body
updated_entry(entry, x, existing, ow) ==
    IF in_db(x, existing) /\ ow
    THEN [entry EXCEPT !.overwrite = TRUE, !.path_remote = existing[x]]
    ELSE entry

\* self.failed after the loop
failed_after(d, f, existing, ow) ==
    LET skip == skipped_keys(d, existing, ow)
    IN  [x \in DOMAIN f \cup skip |->
            IF x \in skip THEN failed_entry(d[x], AlreadyUploadedMessage) ELSE f[x]]

\* self.data after the loop
data_after(d, existing, ow) ==
    [x \in DOMAIN d \ skipped_keys(d, existing, ow) |->
        updated_entry(d[x], x, existing, ow)]

\* mutation: a status record is created before the entry is popped
status_after_all_keys(d, existing, ow) ==
    [x \in DOMAIN d |-> initial_status]

\* the returned status_dict
status_after(d, existing, ow) ==
    [x \in DOMAIN d \ skipped_keys(d, existing, ow) |-> initial_status]

create_upload_status_dict ==
    /\ lfh_pc = "checked"
    /\ \E ow \in BOOLEAN :
        /\ overwrite' = ow
        /\ failed' = failed_after(data, failed, existing_files, ow)
        /\ data' = data_after(data, existing_files, ow)
        /\ status_dict' = status_after(data, existing_files, ow)
    /\ lfh_pc' = "status_created"
    /\ UNCHANGED <<disk, catalog, response, existing_files, gen, user_input, ddVars, psVars>>

(***************************************************************************)
(* The upload session: construction, dedup round trip, status dict         *)
(***************************************************************************)
DefaultContent(f) == IF f.name[Len(f.name)] = "gz" THEN <<MagicByte, 0>> ELSE <<0, 0, 0>>

NoGen == [pc |-> "none"]

NoResponse == [sent |-> FALSE]

NoCall == [op |-> "none"]

NoArgs == [method |-> "none"]

NoSelf == [pc |-> "none"]

\* no ProjectStatusManager in this run
NoStatusManager ==
    /\ ps_env = [new_status |-> "none"]
    /\ ps_run = [pc |-> "none"]

\* no DataDeliverer is being constructed
NoConstruction ==
    /\ dd_args = NoArgs
    /\ dd_self = NoSelf
    /\ cwd_dirs = {}
    /\ NoStatusManager

\* no DataDeliverer in this run
NoDeliverer ==
    /\ bucket_exists = FALSE
    /\ objects = {}
    /\ local_files = {}
    /\ local_dirs = {}
    /\ dd_call = NoCall
    /\ dd_count = 0
    /\ NoConstruction

InitLFH ==
    /\ \E S \in SUBSET FileUniverse :
        /\ disk = [k \in {Key(f) : f \in S} |-> DefaultContent(FileOfKey(k))]
        /\ \E hex \in [{Key(f) : f \in S} -> HexPrefixes] :
            catalog = [k \in {Key(f) : f \in S} |-> file_info(FileOfKey(k), disk[k], hex[k])]
    /\ data = catalog
    /\ failed = <<>>
    /\ status_dict = <<>>
    /\ lfh_pc = "constructed"
    /\ response = NoResponse
    /\ existing_files = <<>>
    /\ overwrite = FALSE
    /\ user_input = {}
    /\ gen = NoGen
    /\ NoDeliverer

NextLFH ==
    \/ check_previous_upload
    \/ create_upload_status_dict

SpecLFH == InitLFH /\ [][NextLFH]_vars

(***************************************************************************)
(* LocalFileHandler.__init__: the catalog built from the user's paths.     *)
(* A path is the directory that holds it (directory names below /in) and   *)
(* its name; directory names have no dots.                                 *)
(***************************************************************************)
Loc(dir, name) == [dir |-> dir, name |-> name]

\* the files on the user's disk
TreeFiles ==
    { Loc(<<>>, <<"a", "txt">>),
      Loc(<<"e">>, <<"a", "txt">>),
      Loc(<<"d">>, <<"b", "tar", "gz">>),
      Loc(<<"d", "s">>, <<"c">>),
      Loc(<<"d", "s">>, <<"c", "zst">>) }

\* the directories on the user's disk
TreeDirs == UNION {{SubSeq(f.dir, 1, n) : n \in 1..Len(f.dir)} : f \in TreeFiles}

\* what the files hold: .gz and .zst files are compressed containers
TreeContent(p) ==
    IF p.name[Len(p.name)] \in {"gz", "zst"} THEN <<MagicByte, 0>> ELSE <<0, 0, 0>>

\* the paths a user may hand to the handler; /in/zz does not exist
UserInputs ==
    { Loc(<<>>, <<"a", "txt">>),
      Loc(<<"e">>, <<"a", "txt">>),
      Loc(<<>>, <<"d">>),
      Loc(<<"d">>, <<"s">>),
      Loc(<<>>, <<"zz">>) }

is_file(p) == p \in TreeFiles

is_dir(p) == Len(p.name) = 1 /\ (p.dir \o <<p.name[1]>>) \in TreeDirs

path_exists(p) == is_file(p) \/ is_dir(p)

\* path.glob("*"): the files and directories directly inside directory p
glob(p) ==
    LET here == p.dir \o <<p.name[1]>>
    IN  {f \in TreeFiles : f.dir = here}
        \cup {Loc(here, <<t[Len(t)]>>) : t \in {u \in TreeDirs : SubSeq(u, 1, Len(u) - 1) = here}}

\* the (key, path) pairs __collect_file_info_local assigns, in any order
RECURSIVE collect_file_info_local(_, _)
collect_file_info_local(all_paths, folder) ==
    UNION { IF is_file(path) THEN {[key |-> Key(File(folder, path.name)), path |-> path]}
            ELSE IF is_dir(path)
            THEN collect_file_info_local(glob(path), folder \o <<path.name[1]>>)
            ELSE {} : path \in all_paths }

\* the entry file_info[str(folder / path.name)] of one file
collected_entry(key, path, hex) ==
    [file_info(FileOfKey(key), TreeContent(path), hex)
        EXCEPT !.path_raw = AbsPath(File(path.dir, path.name))]

\* the assignment to key k that was made last and so stays in the dict
written(last, k) == CHOOSE a \in last : a.key = k

\* self.data_list after line 60
data_list(input) == {x \in input : path_exists(x)}

LocalFileHandler_init ==
    /\ lfh_pc = "created"
    /\ LET assigned == collect_file_info_local(data_list(user_input), <<>>)
           keys     == {a.key : a \in assigned}
       IN  IF data_list(user_input) = {}
           THEN /\ lfh_pc' = "os._exit"
                /\ UNCHANGED <<disk, catalog, data>>
           ELSE \E compressor_error \in BOOLEAN :
                IF compressor_error /\ assigned # {}
                THEN /\ lfh_pc' = "os._exit"
                     /\ UNCHANGED <<disk, catalog, data>>
                ELSE \E last \in SUBSET assigned, hex \in [keys -> HexPrefixes] :
                        /\ \A k \in keys : Cardinality({a \in last : a.key = k}) = 1
                        /\ data' = [k \in keys |->
                                      collected_entry(k, written(last, k).path, hex[k])]
                        /\ catalog' = data'
                        /\ disk' = [k \in keys |-> TreeContent(written(last, k).path)]
                        /\ lfh_pc' = "constructed"
    /\ UNCHANGED <<failed, status_dict, response, existing_files, overwrite,
                   user_input, gen, ddVars, psVars>>

InitCatalog ==
    /\ user_input \in SUBSET UserInputs
    /\ disk = <<>>
    /\ catalog = <<>>
    /\ data = <<>>
    /\ failed = <<>>
    /\ status_dict = <<>>
    /\ lfh_pc = "created"
    /\ response = NoResponse
    /\ existing_files = <<>>
    /\ overwrite = FALSE
    /\ gen = NoGen
    /\ NoDeliverer

NextCatalog ==
    \/ LocalFileHandler_init
    \/ check_previous_upload
    \/ create_upload_status_dict

SpecCatalog == InitCatalog /\ [][NextCatalog]_vars

(***************************************************************************)
(* hashlib.sha256: an iterated digest over the bytes fed to it, kept to 16 *)
(* bits; hexdigest prints it as hex digits.                                *)
(***************************************************************************)
DigestModulus == 65536

sha256_new == 40503

sha256_byte(h, b) == ((h * 31) + b + 1) % DigestModulus

RECURSIVE sha256_update(_, _)
sha256_update(h, chunk) ==
    IF chunk = <<>> THEN h
    ELSE sha256_update(sha256_byte(h, Head(chunk)), Tail(chunk))

HexDigits == <<"0", "1", "2", "3", "4", "5", "6", "7",
               "8", "9", "a", "b", "c", "d", "e", "f">>

hexdigest(h) ==
    << HexDigits[((h \div 4096) % 16) + 1], HexDigits[((h \div 256) % 16) + 1],
       HexDigits[((h \div 16) % 16) + 1],   HexDigits[(h % 16) + 1] >>

(***************************************************************************)
(* read_file: the file in chunk_size sized chunks                          *)
(***************************************************************************)
\* mutation: a trailing chunk shorter than chunk_size is not read
read_full_chunks_only(content, pos) ==
    IF pos + SEGMENT_SIZE_RAW <= Len(content)
    THEN SubSeq(content, pos + 1, pos + SEGMENT_SIZE_RAW)
    ELSE <<>>

\* infile.read(chunk_size) at offset pos
infile_read(content, pos) ==
    SubSeq(content, pos + 1, Min(pos + SEGMENT_SIZE_RAW, Len(content)))

\* the chunks read_file yields from offset pos when no read fails
RECURSIVE read_file_from(_, _)
read_file_from(content, pos) ==
    LET chunk == infile_read(content, pos)
    IN  IF chunk = <<>> THEN <<>>
        ELSE <<chunk>> \o read_file_from(content, pos + Len(chunk))

\* the chunks read_file yields when the read after `limit` chunks raises
\* OSError (limit = number of chunks of the file: no read before EOF fails)
read_file(content, limit) ==
    SubSeq(read_file_from(content, 0), 1, limit)

chunk_count(content) == Len(read_file_from(content, 0))

RECURSIVE Flatten(_)
Flatten(chunks) ==
    IF chunks = <<>> THEN <<>> ELSE Head(chunks) \o Flatten(Tail(chunks))

\* the for loop "checksum.update(chunk)" over a chunk sequence
RECURSIVE sha256_update_all(_, _)
sha256_update_all(h, chunks) ==
    IF chunks = <<>> THEN h
    ELSE sha256_update_all(sha256_update(h, Head(chunks)), Tail(chunks))

(***************************************************************************)
(* Compressor.compress_file: reads the raw file itself and yields the      *)
(* compressed stream in chunks (a frame magic, then run-length pairs)      *)
(***************************************************************************)
run_length(s) ==
    CHOOSE n \in 1..Len(s) :
        /\ \A i \in 1..n : s[i] = s[1]
        /\ (n = Len(s) \/ s[n + 1] # s[1])

RECURSIVE run_length_encode(_)
run_length_encode(s) ==
    IF s = <<>> THEN <<>>
    ELSE <<run_length(s), s[1]>> \o
         run_length_encode(SubSeq(s, run_length(s) + 1, Len(s)))

compress(content) == <<MagicByte>> \o run_length_encode(content)

\* limit, oserror: as for read_file; a failure before the first read
\* (the open included) leaves nothing to yield
compress_file(content, limit, oserror) ==
    IF oserror /\ limit = 0 THEN <<>>
    ELSE read_file_from(compress(Flatten(read_file(content, limit))), 0)

(***************************************************************************)
(* stream_from_file: a generator.  gen.pc is where it is suspended:        *)
(*   "created"   -- called, body not yet entered                           *)
(*   "yielded"   -- suspended at a yield                                   *)
(*   "exhausted" -- ran to its end (StopIteration)                         *)
(*   "closed"    -- abandoned by the consumer before its end               *)
(***************************************************************************)
\* mutation: the checksum is written back inside the loop
write_checksum_eagerly(entry, h, finished) ==
    [entry EXCEPT !.checksum = hexdigest(h)]

\* self.data[file]["checksum"] = checksum.hexdigest(), after the loops only
write_checksum(entry, h, finished) ==
    IF finished THEN [entry EXCEPT !.checksum = hexdigest(h)] ELSE entry

stream_from_file ==
    /\ lfh_pc = "streaming"
    /\ gen.pc = "none"
    /\ \E file \in DOMAIN data :
        gen' = [pc |-> "created", file |-> file, checksum |-> sha256_new,
                pos |-> 0, hashed |-> 0, out |-> <<>>, pending |-> <<>>,
                read_error |-> FALSE, compress_read |-> 0, compress_error |-> FALSE]
    /\ UNCHANGED <<lfhVars, ddVars, psVars>>

\* next() in the branch file_info["compressed"]: one read of read_file
stream_next_raw ==
    /\ gen.pc \in {"created", "yielded"}
    /\ data[gen.file].compressed
    /\ \E oserror \in BOOLEAN :
        LET chunk == IF oserror THEN <<>> ELSE infile_read(disk[gen.file], gen.pos)
            h     == sha256_update(gen.checksum, chunk)
            done  == chunk = <<>>
        IN  /\ gen' = [gen EXCEPT
                        !.pc = IF done THEN "exhausted" ELSE "yielded",
                        !.checksum = h,
                        !.pos = @ + Len(chunk),
                        !.hashed = @ + Len(chunk),
                        !.out = IF done THEN @ ELSE Append(@, chunk),
                        !.read_error = oserror]
            /\ data' = [data EXCEPT ![gen.file] = write_checksum(@, h, done)]
    /\ UNCHANGED <<disk, catalog, failed, status_dict, lfh_pc, response,
                   existing_files, overwrite, user_input, ddVars, psVars>>

\* first next() in the other branch: the whole digest pass over read_file,
\* then compress_file up to its first chunk
stream_next_compress_first ==
    /\ gen.pc = "created"
    /\ ~data[gen.file].compressed
    /\ \E limit1 \in 0..chunk_count(disk[gen.file]), oserror1 \in BOOLEAN,
          limit2 \in 0..chunk_count(disk[gen.file]), oserror2 \in BOOLEAN :
        /\ limit1 < chunk_count(disk[gen.file]) => oserror1
        /\ limit2 < chunk_count(disk[gen.file]) => oserror2
        /\ LET content == disk[gen.file]
               pass1   == read_file(content, limit1)
               h       == sha256_update_all(gen.checksum, pass1)
               output  == compress_file(content, limit2, oserror2)
               done    == output = <<>>
           IN  /\ gen' = [gen EXCEPT
                           !.pc = IF done THEN "exhausted" ELSE "yielded",
                           !.checksum = h,
                           !.pos = Len(Flatten(pass1)),
                           !.hashed = Len(Flatten(pass1)),
                           !.out = IF done THEN @ ELSE <<Head(output)>>,
                           !.pending = IF done THEN <<>> ELSE Tail(output),
                           !.read_error = oserror1,
                           !.compress_read = Len(Flatten(read_file(content, limit2))),
                           !.compress_error = oserror2]
               /\ data' = [data EXCEPT ![gen.file] = write_checksum(@, h, done)]
    /\ UNCHANGED <<disk, catalog, failed, status_dict, lfh_pc, response,
                   existing_files, overwrite, user_input, ddVars, psVars>>

\* a later next() in that branch: the next chunk of compress_file
stream_next_compress ==
    /\ gen.pc = "yielded"
    /\ ~data[gen.file].compressed
    /\ LET done == gen.pending = <<>>
       IN  /\ gen' = [gen EXCEPT
                       !.pc = IF done THEN "exhausted" ELSE "yielded",
                       !.out = IF done THEN @ ELSE Append(@, Head(gen.pending)),
                       !.pending = IF done THEN <<>> ELSE Tail(@)]
           /\ data' = [data EXCEPT ![gen.file] = write_checksum(@, gen.checksum, done)]
    /\ UNCHANGED <<disk, catalog, failed, status_dict, lfh_pc, response,
                   existing_files, overwrite, user_input, ddVars, psVars>>

\* the consumer drops the generator before its end (GeneratorExit at the
\* yield): nothing after the loops runs
stream_close ==
    /\ gen.pc \in {"created", "yielded"}
    /\ gen' = [gen EXCEPT !.pc = "closed"]
    /\ UNCHANGED <<lfhVars, ddVars, psVars>>

InitStream ==
    /\ \E f \in FileUniverse, content \in Contents, hex \in HexPrefixes :
        /\ disk = (Key(f) :> content)
        /\ catalog = (Key(f) :> file_info(f, content, hex))
    /\ data = catalog
    /\ failed = <<>>
    /\ status_dict = [x \in DOMAIN data |-> initial_status]
    /\ lfh_pc = "streaming"
    /\ response = NoResponse
    /\ existing_files = <<>>
    /\ overwrite = FALSE
    /\ user_input = {}
    /\ gen = NoGen
    /\ NoDeliverer

NextStream ==
    \/ stream_from_file
    \/ stream_next_raw
    \/ stream_next_compress_first
    \/ stream_next_compress
    \/ stream_close

SpecStream == InitStream /\ [][NextStream]_vars

(***************************************************************************)
(* DataDeliverer.  Strings (paths, object keys) are sequences of           *)
(* characters; every path component used here is one character long.  One  *)
(* put input is a file named like the directory that holds it.             *)
(***************************************************************************)
Slash == "/"

\* str.find: index of the first occurrence of sep in s, 0 when there is none
str_find(s, sep) ==
    LET hits == {i \in 1..(Len(s) - Len(sep) + 1) : SubSeq(s, i, i + Len(sep) - 1) = sep}
    IN  IF hits = {} THEN 0 ELSE CHOOSE i \in hits : \A j \in hits : i <= j

\* s.split(sep)[0]
str_split_first(s, sep) ==
    IF str_find(s, sep) = 0 THEN s ELSE SubSeq(s, 1, str_find(s, sep) - 1)

\* s.split(sep)[-1]
RECURSIVE str_split_last(_, _)
str_split_last(s, sep) ==
    IF str_find(s, sep) = 0 THEN s
    ELSE str_split_last(SubSeq(s, str_find(s, sep) + Len(sep), Len(s)), sep)

startswith(s, prefix) ==
    Len(prefix) <= Len(s) /\ SubSeq(s, 1, Len(prefix)) = prefix

\* pathlib: Path(str).name
path_name(str) == str_split_last(str, <<Slash>>)

\* pathlib: the components of Path(str)
RECURSIVE path_parts(_)
path_parts(str) ==
    IF str = <<>> THEN <<>>
    ELSE IF Head(str) = Slash THEN path_parts(Tail(str))
    ELSE <<Head(str)>> \o path_parts(Tail(str))

path_parent(parts) == SubSeq(parts, 1, Len(parts) - 1)

\* a path's proper ancestors and itself, below the download root
path_prefixes(parts) == {SubSeq(parts, 1, n) : n \in 1..Len(parts)}

NoSpecPath == [is_none |-> TRUE]

SpecPath(str) == [is_none |-> FALSE, str |-> str]

\* the (file, spec_path) pairs put is called with
PutInputs ==
    { [file |-> <<"/", "i", "/", "f">>,                     spec_path |-> NoSpecPath],
      [file |-> <<"/", "i", "/", "d", "/", "f">>,           spec_path |-> SpecPath(<<"d">>)],
      [file |-> <<"/", "i", "/", "d", "/", "s", "/", "f">>, spec_path |-> SpecPath(<<"d">>)],
      [file |-> <<"/", "i", "/", "d", "/", "f", "/", "f">>, spec_path |-> SpecPath(<<"d">>)] }

\* the paths get is called with
GetPaths == { <<"f">>, <<"d">>, <<"d", "/", "s">>, <<"x">> }

\* object keys, in the order the bucket lists them
ObjectKeyOrder ==
    << <<"d", "/">>,
       <<"d", "/", "f">>,
       <<"d", "/", "f", "/", "f">>,
       <<"d", "/", "s", "/">>,
       <<"d", "/", "s", "/", "f">>,
       <<"f">> >>

\* keys a bucket may hold before the run
InitialObjects == { <<"d", "/">>, <<"d", "/", "f">>, <<"d", "/", "s", "/", "f">>, <<"f">> }

\* where one S3 client call of put can raise
PutFaults == {"none", "list_objects_v2", "put_object", "file_exists_in_bucket", "upload_file"}

s3_call(op, key, result) == [op |-> op, key |-> key, result |-> result]

Running == [kind |-> "running", value |-> "None"]

Return(value) == [kind |-> "return", value |-> value]

Raise(exception) == [kind |-> "raise", value |-> exception]

bool_str(b) == IF b THEN "True" ELSE "False"

\* S3Object.file_exists_in_bucket: prefix-aware existence check
file_exists_in_bucket(objs, key) ==
    LET matching == {k \in objs : startswith(k, key)}
        listed(k) == k \in matching
    IN  [exists |-> matching # {}, filelist |-> SelectSeq(ObjectKeyOrder, listed),
         filelist_set |-> matching]

\* put: the target key
put_filepath(file, spec_path) ==
    IF spec_path.is_none THEN path_name(file)
    ELSE spec_path.str \o str_split_last(file, spec_path.str)

\* put: the folder prefix of the target key
put_all_subfolders(file, spec_path) ==
    str_split_first(put_filepath(file, spec_path), path_name(file))

\* put, lines 463-483: the folder marker
put_marker(st, file, spec_path, fault) ==
    IF spec_path.is_none THEN st
    ELSE IF fault = "list_objects_v2"
    THEN [st EXCEPT !.calls = Append(@, s3_call("list_objects_v2", <<>>, "raised")),
                    !.ret = Raise("ClientError")]
    ELSE LET all_subfolders == put_all_subfolders(file, spec_path)
             found == all_subfolders \in st.objects
             st1   == [st EXCEPT !.calls = Append(@, s3_call("list_objects_v2", <<>>, "ok"))]
         IN  IF found THEN st1
             ELSE IF fault = "put_object"
             THEN [st1 EXCEPT !.calls = Append(@, s3_call("put_object", all_subfolders, "raised")),
                              !.ret = Raise("ClientError")]
             ELSE [st1 EXCEPT !.calls = Append(@, s3_call("put_object", all_subfolders, "ok")),
                              !.objects = @ \cup {all_subfolders}]

\* mutation: the file is uploaded whatever the existence check says
put_file_always_uploads(st, file, spec_path, fault) ==
    IF st.ret.kind # "running" THEN st
    ELSE IF fault = "file_exists_in_bucket"
    THEN [st EXCEPT !.calls = Append(@, s3_call("file_exists_in_bucket",
                                                put_filepath(file, spec_path), "raised")),
                    !.ret = Raise("ClientError")]
    ELSE LET filepath == put_filepath(file, spec_path)
             check    == file_exists_in_bucket(st.objects, filepath)
             st1      == [st EXCEPT !.calls = Append(@, s3_call("file_exists_in_bucket",
                                                  filepath, bool_str(check.exists)))]
         IN  IF fault = "upload_file"
             THEN [st1 EXCEPT !.calls = Append(@, s3_call("upload_file", filepath, "raised")),
                              !.ret = Return("None")]
             ELSE [st1 EXCEPT !.calls = Append(@, s3_call("upload_file", filepath, "ok")),
                              !.objects = @ \cup {filepath},
                              !.ret = Return("Success")]

\* mutation: a failed upload is not caught
upload_file_propagates(st, filepath, fault) ==
    IF fault = "upload_file"
    THEN [st EXCEPT !.calls = Append(@, s3_call("upload_file", filepath, "raised")),
                    !.ret = Raise("Exception")]
    ELSE [st EXCEPT !.calls = Append(@, s3_call("upload_file", filepath, "ok")),
                    !.objects = @ \cup {filepath},
                    !.ret = Return("Success")]

\* put, lines 490-497: the upload; a failure is printed and put ends without
\* a return value
upload_file(st, filepath, fault) ==
    IF fault = "upload_file"
    THEN [st EXCEPT !.calls = Append(@, s3_call("upload_file", filepath, "raised")),
                    !.ret = Return("None")]
    ELSE [st EXCEPT !.calls = Append(@, s3_call("upload_file", filepath, "ok")),
                    !.objects = @ \cup {filepath},
                    !.ret = Return("Success")]

\* put, lines 485-497: existence check, then the upload
put_file(st, file, spec_path, fault) ==
    IF st.ret.kind # "running" THEN st
    ELSE IF fault = "file_exists_in_bucket"
    THEN [st EXCEPT !.calls = Append(@, s3_call("file_exists_in_bucket",
                                                put_filepath(file, spec_path), "raised")),
                    !.ret = Raise("ClientError")]
    ELSE LET filepath == put_filepath(file, spec_path)
             check    == file_exists_in_bucket(st.objects, filepath)
             st1      == [st EXCEPT !.calls = Append(@, s3_call("file_exists_in_bucket",
                                                  filepath, bool_str(check.exists)))]
         IN  IF check.exists THEN [st1 EXCEPT !.ret = Return("File exists")]
             ELSE upload_file(st1, filepath, fault)

\* the state a put/get call starts in: the bucket listing has been made
call_start(objs, files, dirs, in_buckets) ==
    [objects |-> objs, files |-> files, dirs |-> dirs,
     calls |-> <<s3_call("buckets.all", <<>>, bool_str(in_buckets))>>,
     ret |-> Running]

\* mutation: the bucket test is missing
put_body_no_bucket_test(st, in_buckets, file, spec_path, fault) ==
    put_file(put_marker(st, file, spec_path, fault), file, spec_path, fault)

\* put, lines 461-500
put_body(st, in_buckets, file, spec_path, fault) ==
    IF in_buckets
    THEN put_file(put_marker(st, file, spec_path, fault), file, spec_path, fault)
    ELSE [st EXCEPT !.ret = Raise("S3Error")]

\* what the run remembers of the call before the current one
last_call ==
    IF dd_call.op = "none" THEN NoCall
    ELSE [op |-> dd_call.op,
          target |-> IF dd_call.op = "put" THEN dd_call.file ELSE dd_call.path,
          calls |-> dd_call.calls, ret |-> dd_call.ret]

\* the process is still running
dd_alive == IF dd_call.op = "none" THEN TRUE ELSE dd_call.ret.value # "SystemExit"

put ==
    /\ dd_count < MaxCalls
    /\ dd_alive
    /\ \E inp \in PutInputs, fault \in PutFaults :
        LET st == put_body(call_start(objects, local_files, local_dirs, bucket_exists),
                           bucket_exists, inp.file, inp.spec_path, fault)
        IN  /\ objects' = st.objects
            /\ dd_call' = [op |-> "put", file |-> inp.file, spec_path |-> inp.spec_path,
                           before |-> objects, calls |-> st.calls, ret |-> st.ret,
                           prev |-> last_call]
    /\ dd_count' = dd_count + 1
    /\ UNCHANGED <<lfhVars, gen, bucket_exists, local_files, local_dirs,
                   dd_args, dd_self, cwd_dirs, psVars>>

\* mutation: the local target is downloaded whether or not it exists
get_one_always_downloads(f, st, mkdir_fail, download_fail) ==
    LET new_path == path_parts(f)
        parent   == path_parent(new_path)
        mkdir_ok == /\ f \notin mkdir_fail
                    /\ path_prefixes(parent) \cap st.files = {}
        st1 == IF parent = <<>> \/ parent \in st.dirs \cup st.files THEN st
               ELSE IF mkdir_ok
               THEN [st EXCEPT !.dirs = @ \cup path_prefixes(parent)]
               ELSE [st EXCEPT !.ret = Raise("SystemExit")]
        download_ok == /\ f \notin download_fail
                       /\ new_path # <<>>
                       /\ new_path \notin st1.dirs
                       /\ (parent = <<>> \/ parent \in st1.dirs)
    IN  IF st1.ret.kind # "running" THEN st1
        ELSE IF download_ok
        THEN [st1 EXCEPT !.calls = Append(@, s3_call("download_file", f, "ok")),
                         !.files = @ \cup {new_path}]
        ELSE [st1 EXCEPT !.calls = Append(@, s3_call("download_file", f, "raised"))]

\* get, lines 521-541: one pass of the for loop
get_one(f, st, mkdir_fail, download_fail) ==
    LET new_path == path_parts(f)
        parent   == path_parent(new_path)
        mkdir_ok == /\ f \notin mkdir_fail
                    /\ path_prefixes(parent) \cap st.files = {}
        st1 == IF parent = <<>> \/ parent \in st.dirs \cup st.files THEN st
               ELSE IF mkdir_ok
               THEN [st EXCEPT !.dirs = @ \cup path_prefixes(parent)]
               ELSE [st EXCEPT !.ret = Raise("SystemExit")]
        download_ok == /\ f \notin download_fail
                       /\ new_path # <<>>
                       /\ (parent = <<>> \/ parent \in st1.dirs)
    IN  IF st1.ret.kind # "running" THEN st1
        ELSE IF new_path = <<>> \/ new_path \in st1.dirs \cup st1.files
        THEN [st1 EXCEPT !.calls = Append(@, s3_call("skip", f, "exists"))]
        ELSE IF download_ok
        THEN [st1 EXCEPT !.calls = Append(@, s3_call("download_file", f, "ok")),
                         !.files = @ \cup {new_path}]
        ELSE [st1 EXCEPT !.calls = Append(@, s3_call("download_file", f, "raised"))]

\* get, lines 521-541: the for loop over the matching keys
RECURSIVE get_loop(_, _, _, _)
get_loop(filelist, st, mkdir_fail, download_fail) ==
    IF filelist = <<>> \/ st.ret.kind # "running" THEN st
    ELSE get_loop(Tail(filelist), get_one(Head(filelist), st, mkdir_fail, download_fail),
                  mkdir_fail, download_fail)

\* get, lines 514-541
get_body(st, in_buckets, path, mkdir_fail, download_fail) ==
    IF in_buckets
    THEN LET check == file_exists_in_bucket(st.objects, path)
             st1   == [st EXCEPT !.calls = Append(@, s3_call("file_exists_in_bucket",
                                               path, bool_str(check.exists)))]
         IN  IF ~check.exists THEN [st1 EXCEPT !.ret = Return("File does not exist")]
             ELSE LET st2 == get_loop(check.filelist, st1, mkdir_fail, download_fail)
                  IN  IF st2.ret.kind = "running" THEN [st2 EXCEPT !.ret = Return("None")]
                      ELSE st2
    ELSE [st EXCEPT !.ret = Return("None")]

get ==
    /\ dd_count < MaxCalls
    /\ dd_alive
    /\ \E path \in GetPaths :
        \E mkdir_fail \in SUBSET file_exists_in_bucket(objects, path).filelist_set,
           download_fail \in SUBSET file_exists_in_bucket(objects, path).filelist_set :
            LET st == get_body(call_start(objects, local_files, local_dirs, bucket_exists),
                               bucket_exists, path, mkdir_fail, download_fail)
            IN  /\ local_files' = st.files
                /\ local_dirs' = st.dirs
                /\ dd_call' = [op |-> "get", path |-> path, before |-> objects,
                               files_before |-> local_files, dirs_before |-> local_dirs,
                               calls |-> st.calls, ret |-> st.ret, prev |-> last_call]
    /\ dd_count' = dd_count + 1
    /\ UNCHANGED <<lfhVars, gen, bucket_exists, objects, dd_args, dd_self, cwd_dirs,
                   psVars>>

\* no LocalFileHandler in this run
NoHandler ==
    /\ disk = <<>>
    /\ catalog = <<>>
    /\ data = <<>>
    /\ failed = <<>>
    /\ status_dict = <<>>
    /\ lfh_pc = "none"
    /\ response = NoResponse
    /\ existing_files = <<>>
    /\ overwrite = FALSE
    /\ user_input = {}
    /\ gen = NoGen

InitS3 ==
    /\ NoHandler
    /\ bucket_exists \in BOOLEAN
    /\ objects \in SUBSET InitialObjects
    /\ ~bucket_exists => objects = {}
    /\ local_files = {}
    /\ local_dirs = {}
    /\ dd_call = NoCall
    /\ dd_count = 0
    /\ NoConstruction

NextS3 ==
    \/ put
    \/ get

SpecS3 == InitS3 /\ [][NextS3]_vars

(***************************************************************************)
(* DataDeliverer.__init__: access checks, data_to_deliver,                 *)
(* create_directories, S3Object.get_info.  Local paths are strings         *)
(* relative to the working directory.                                      *)
(***************************************************************************)
\* the spellings a user can enter; a and d exist in the working directory
Spellings == { <<"a">>, <<".", "/", "a">>, <<"d">>, <<"z">> }

ExistingPaths == { <<"a">>, <<"d">> }

Newline == "\n"

Whitespace == {" ", Newline}

\* the lines of a pathfile, as iterating over the open file yields them
Lines == {sp \o <<Newline>> : sp \in Spellings}

\* str.strip()
RECURSIVE str_strip(_)
str_strip(str) ==
    IF str = <<>> THEN str
    ELSE IF Head(str) \in Whitespace THEN str_strip(Tail(str))
    ELSE IF str[Len(str)] \in Whitespace THEN str_strip(SubSeq(str, 1, Len(str) - 1))
    ELSE str

not_dot(component) == component # "."

\* mutation: the path is made absolute but "." components are kept
resolve_keeps_dot(str) == <<"cwd">> \o path_parts(str)

\* Path(str).resolve(): absolute, without "." components
resolve(str) == <<"cwd">> \o SelectSeq(path_parts(str), not_dot)

\* Path(str).exists()
exists(str) == SelectSeq(path_parts(str), not_dot) \in ExistingPaths

NoneArg == [is_none |-> TRUE]

\* the data argument: None or a tuple of paths
DataArgs == {NoneArg} \cup {[is_none |-> FALSE, items |-> t] : t \in SeqsUpTo(Spellings, MaxPaths)}

\* the pathfile argument: None, a missing file, or a file with its lines
PathfileArgs ==
    {NoneArg}
    \cup {[is_none |-> FALSE, exists |-> FALSE]}
    \cup {[is_none |-> FALSE, exists |-> TRUE, lines |-> l] : l \in SeqsUpTo(Lines, MaxPaths)}

\* self.method: the name of the function that constructs the deliverer
Methods == {"put", "get", "other"}

\* how the credential and access checks of lines 77-114 end
AccessOutcomes == {"granted", "dp_denied", "project_denied"}

\* one element of all_files
resolved_element(method, str) ==
    IF method = "put"
    THEN IF exists(str) THEN [kind |-> "Path", path |-> resolve(str)]
         ELSE [kind |-> "unresolved", raw |-> str]
    ELSE [kind |-> "str", raw |-> str]

\* [f(x) for x in seq]
RECURSIVE elements_of(_, _, _)
elements_of(method, seq, stripped) ==
    IF seq = <<>> THEN <<>>
    ELSE <<resolved_element(method, IF stripped THEN str_strip(Head(seq)) ELSE Head(seq))>>
         \o elements_of(method, Tail(seq), stripped)

\* list.count
count(list, element) == Cardinality({i \in DOMAIN list : list[i] = element})

\* data_to_deliver, lines 342-379: the list returned or the exception raised
data_to_deliver(method, data_arg, pathfile) ==
    LET from_data == IF data_arg.is_none \/ method \notin {"put", "get"} THEN <<>>
                     ELSE elements_of(method, data_arg.items, FALSE)
    IN  IF ~pathfile.is_none /\ ~pathfile.exists THEN Raise("IOError")
        ELSE IF ~pathfile.is_none /\ method \notin {"put", "get"}
        THEN Raise("DeliveryOptionException")
        ELSE LET all_files == IF pathfile.is_none THEN from_data
                              ELSE from_data \o elements_of(method, pathfile.lines, TRUE)
             IN  IF \E i \in DOMAIN all_files : count(all_files, all_files[i]) # 1
                 THEN Raise("DeliveryOptionException")
                 ELSE [kind |-> "return", value |-> all_files]

\* not x, for the data and pathfile arguments
falsy(arg) == IF arg.is_none THEN TRUE ELSE IF "items" \in DOMAIN arg THEN arg.items = <<>> ELSE FALSE

\* __init__, lines 77-98 and 109-114: credentials and access checks
DataDeliverer_access ==
    /\ dd_self.pc = "new"
    /\ dd_self' = IF dd_args.access = "granted"
                  THEN [dd_self EXCEPT !.pc = "access_granted"]
                  ELSE [dd_self EXCEPT !.pc = "raised", !.exc = "DeliveryPortalException"]
    /\ UNCHANGED <<lfhVars, gen, bucket_exists, objects, local_files, local_dirs,
                   dd_call, dd_count, dd_args, cwd_dirs, psVars>>

\* __init__, lines 99-108: the input catalog
DataDeliverer_data ==
    /\ dd_self.pc = "access_granted"
    /\ dd_self' =
        IF falsy(dd_args.data) /\ falsy(dd_args.pathfile)
        THEN [dd_self EXCEPT !.pc = "raised", !.exc = "DeliveryPortalException"]
        ELSE LET result == data_to_deliver(dd_args.method, dd_args.data, dd_args.pathfile)
             IN  IF result.kind = "raise"
                 THEN [dd_self EXCEPT !.pc = "raised", !.exc = result.value,
                                      !.called = @ \cup {"data_to_deliver"}]
                 ELSE [dd_self EXCEPT !.pc = "data_ready",
                                      !.data = [is_none |-> FALSE, items |-> result.value],
                                      !.called = @ \cup {"data_to_deliver"}]
    /\ UNCHANGED <<lfhVars, gen, bucket_exists, objects, local_files, local_dirs,
                   dd_call, dd_count, dd_args, cwd_dirs, psVars>>

\* the staging root and its children, in the order they are created
StagingDirs == <<"DataDelivery", "files", "keys", "meta", "logs">>

temp_dir == StagingDirs[1]

StagingChildren == {StagingDirs[i] : i \in 2..Len(StagingDirs)}

\* how shutil.rmtree(temp_dir) can end: everything removed, or an IOError
\* with the root left, alone or with the children it had
RmtreeOutcomes ==
    {[ok |-> TRUE]} \cup {[ok |-> FALSE, left |-> l] : l \in {{}, StagingChildren}}

\* the directory whose mkdir fails for a reason outside the tree, if any (a
\* mkdir also fails when the directory exists or its parent is missing)
MkdirFaults == {{}} \cup {{StagingDirs[i]} : i \in 1..Len(StagingDirs)}

\* create_directories, lines 399-419: the loop from directory i on
RECURSIVE create_directories_loop(_, _, _, _)
create_directories_loop(i, st, mkdir_fail, rmtree) ==
    IF st.ret.kind # "running" THEN st
    ELSE IF i > Len(StagingDirs) THEN [st EXCEPT !.ret = Return("True")]
    ELSE LET d_ == StagingDirs[i]
             mkdir_ok == /\ d_ \notin mkdir_fail
                         /\ d_ \notin st.dirs
                         /\ (i = 1 \/ temp_dir \in st.dirs)
             logged == [st EXCEPT !.mkdirs = Append(@, [dir |-> d_, ok |-> mkdir_ok,
                                                         had_root |-> temp_dir \in st.dirs])]
         IN  IF mkdir_ok
             THEN create_directories_loop(i + 1, [logged EXCEPT !.dirs = @ \cup {d_}],
                                          mkdir_fail, rmtree)
             ELSE IF temp_dir \in st.dirs
             THEN IF rmtree.ok
                  THEN [logged EXCEPT !.dirs = {}, !.rmtree = "ok",
                                      !.ret = Raise("SystemExit")]
                  ELSE [logged EXCEPT !.dirs = {temp_dir} \cup (@ \cap rmtree.left),
                                      !.rmtree = "IOError",
                                      !.ret = Raise("SystemExit")]
             ELSE create_directories_loop(i + 1, logged, mkdir_fail, rmtree)

\* create_directories, lines 381-421
create_directories(dirs, mkdir_fail, rmtree) ==
    create_directories_loop(1, [dirs |-> dirs, mkdirs |-> <<>>, rmtree |-> "None",
                                ret |-> Running], mkdir_fail, rmtree)

\* __init__, lines 116-120: the staging directories
DataDeliverer_directories ==
    /\ dd_self.pc = "data_ready"
    /\ \E mkdir_fail \in MkdirFaults, rmtree \in RmtreeOutcomes :
        LET st == create_directories(cwd_dirs, mkdir_fail, rmtree)
        IN  /\ cwd_dirs' = st.dirs
            /\ dd_self' =
                [dd_self EXCEPT !.pc = IF st.ret.kind = "raise" THEN "exited"
                                       ELSE IF st.ret.value = "False" THEN "raised"
                                       ELSE "dirs_created",
                                !.exc = IF st.ret.kind = "raise" THEN st.ret.value
                                        ELSE IF st.ret.value = "False" THEN "OSError"
                                        ELSE @,
                                !.dirs_created = st.ret.value,
                                !.tempdir = IF st.ret.kind = "raise" THEN @ ELSE StagingDirs,
                                !.dirs_before = cwd_dirs,
                                !.mkdirs = st.mkdirs,
                                !.rmtree = st.rmtree,
                                !.called = @ \cup {"create_directories"}]
    /\ UNCHANGED <<lfhVars, gen, bucket_exists, objects, local_files, local_dirs,
                   dd_call, dd_count, dd_args, psVars>>

\* __init__, line 122: the S3 connection info
DataDeliverer_get_info ==
    /\ dd_self.pc = "dirs_created"
    /\ dd_self' = [dd_self EXCEPT !.pc = "constructed", !.called = @ \cup {"get_info"}]
    /\ UNCHANGED <<lfhVars, gen, bucket_exists, objects, local_files, local_dirs,
                   dd_call, dd_count, dd_args, cwd_dirs, psVars>>

InitDeliverer ==
    /\ NoHandler
    /\ bucket_exists = FALSE
    /\ objects = {}
    /\ local_files = {}
    /\ local_dirs = {}
    /\ dd_call = NoCall
    /\ dd_count = 0
    /\ dd_args \in [method : Methods, data : DataArgs, pathfile : PathfileArgs,
                     access : AccessOutcomes]
    /\ dd_self = [pc |-> "new", data |-> NoneArg, tempdir |-> <<>>, exc |-> "None",
                  dirs_created |-> "None", dirs_before |-> {}, mkdirs |-> <<>>,
                  rmtree |-> "None", called |-> {}]
    /\ cwd_dirs \in {{}, {temp_dir}}
    /\ NoStatusManager

NextDeliverer ==
    \/ DataDeliverer_access
    \/ DataDeliverer_data
    \/ DataDeliverer_directories
    \/ DataDeliverer_get_info

SpecDeliverer == InitDeliverer /\ [][NextDeliverer]_vars

(***************************************************************************)
(* ProjectStatusManager.update_status, as src/tests/test_project_status.py *)
(* drives it: the status service is two endpoints (project information,    *)
(* status update) whose answers the run fixes, and the user's answer to    *)
(* the confirmation question is fixed as well.                             *)
(***************************************************************************)
project_name == "Test"

\* the target statuses update_status is called with
NewStatuses == {"Available", "Archived", "Deleted"}

\* the status codes the two endpoints answer with
StatusCodes == {200, 403}

\* the fields of the project information the info endpoint answers with
returned_response_get_info == <<"Title", "Description", "PI">>

\* requests: Response.ok
response_ok(status_code) == status_code < 400

\* the message of the update endpoint's answer, when it has one
returned_response_ok(new_status) ==
    <<project_name, " updated to status ", new_status,
      ". An e-mail notification has been sent.">>

\* what a run is given: the call's arguments, the mocked answers of the two
\* endpoints and the answer rich.prompt.Confirm.ask returns
StatusEnvs ==
    [new_status : NewStatuses, is_aborted : BOOLEAN, deadline : {0, 10},
     get_code : StatusCodes, get_has_info : BOOLEAN,
     post_code : StatusCodes, post_has_message : BOOLEAN,
     confirm : BOOLEAN]

ps_event(op, detail) == [op |-> op, detail |-> detail]

ps_raise(st, exception, message) ==
    [st EXCEPT !.outcome = [kind |-> "raise", value |-> exception, message |-> message]]

\* the question the user is asked before a project is archived or deleted
confirm_question(new_status) ==
    <<"Are you sure you want to modify the status of ", project_name,
      IF new_status = "Deleted" THEN "? All its contents and metainfo will be"
      ELSE "? All its contents will be">>

\* mutation: the user's answer is not looked at
confirm_destructive_ignores_answer(st, env) ==
    IF env.new_status \notin {"Archived", "Deleted"} THEN st
    ELSE LET st1 == [st EXCEPT !.events = Append(@, ps_event("get", <<"PROJ_INFO">>))]
         IN  IF ~response_ok(env.get_code)
             THEN ps_raise(st1, "DDSCLIException", <<"Failed to get project information">>)
             ELSE IF ~env.get_has_info
             THEN ps_raise(st1, "ApiResponseError", <<"No project information to display">>)
             ELSE [st1 EXCEPT !.events = @ \o
                       << ps_event("display", returned_response_get_info),
                          ps_event("print", <<"The project '", project_name,
                                             "' is about to be ", env.new_status, ".">>),
                          ps_event("ask", confirm_question(env.new_status)) >>]

\* update_status for Archived and Deleted: fetch and show the project
\* information, then ask for confirmation
confirm_destructive(st, env) ==
    IF env.new_status \notin {"Archived", "Deleted"} THEN st
    ELSE LET st1 == [st EXCEPT !.events = Append(@, ps_event("get", <<"PROJ_INFO">>))]
         IN  IF ~response_ok(env.get_code)
             THEN ps_raise(st1, "DDSCLIException", <<"Failed to get project information">>)
             ELSE IF ~env.get_has_info
             THEN ps_raise(st1, "ApiResponseError", <<"No project information to display">>)
             ELSE LET st2 == [st1 EXCEPT !.events = @ \o
                                 << ps_event("display", returned_response_get_info),
                                    ps_event("print", <<"The project '", project_name,
                                                       "' is about to be ", env.new_status, ".">>),
                                    ps_event("ask", confirm_question(env.new_status)) >>]
                  IN  IF env.confirm THEN st2
                      ELSE ps_raise([st2 EXCEPT !.events =
                                        Append(@, ps_event("log", <<"Probably for the best. Exiting.">>))],
                                    "SystemExit", <<>>)

\* mutation: the answer of the update endpoint is not checked
perform_update_unchecked(st, env) ==
    IF st.outcome.kind # "running" THEN st
    ELSE [st EXCEPT !.events = @ \o
              << ps_event("post", <<"UPDATE_PROJ_STATUS", env.new_status>>),
                 ps_event("print", IF env.post_has_message
                                   THEN returned_response_ok(env.new_status)
                                   ELSE <<"None">>) >>,
                    !.outcome = [kind |-> "return", value |-> "None", message |-> <<>>]]

\* update_status: the update request and the confirmation message
perform_update(st, env) ==
    IF st.outcome.kind # "running" THEN st
    ELSE LET st1 == [st EXCEPT !.events =
                        Append(@, ps_event("post", <<"UPDATE_PROJ_STATUS", env.new_status>>))]
         IN  IF ~response_ok(env.post_code)
             THEN ps_raise(st1, "DDSCLIException", <<"Failed to update project status">>)
             ELSE [st1 EXCEPT !.events =
                       Append(@, ps_event("print", IF env.post_has_message
                                                   THEN returned_response_ok(env.new_status)
                                                   ELSE <<"None">>)),
                              !.outcome = [kind |-> "return", value |-> "None", message |-> <<>>]]

update_status ==
    /\ ps_run.pc = "entered"
    /\ LET start == [events |-> <<>>,
                     outcome |-> [kind |-> "running", value |-> "None", message |-> <<>>]]
           st == perform_update(confirm_destructive(start, ps_env), ps_env)
       IN  ps_run' = [pc |-> "left", events |-> st.events, outcome |-> st.outcome]
    /\ UNCHANGED <<lfhVars, gen, ddVars, ps_env>>

InitStatus ==
    /\ NoHandler
    /\ bucket_exists = FALSE
    /\ objects = {}
    /\ local_files = {}
    /\ local_dirs = {}
    /\ dd_call = NoCall
    /\ dd_count = 0
    /\ dd_args = NoArgs
    /\ dd_self = NoSelf
    /\ cwd_dirs = {}
    /\ ps_env \in StatusEnvs
    /\ ps_run = [pc |-> "entered", events |-> <<>>,
                 outcome |-> [kind |-> "running", value |-> "None", message |-> <<>>]]

NextStatus == update_status

SpecStatus == InitStatus /\ [][NextStatus]_vars

(***************************************************************************)
(* Claims about DataDeliverer.put and DataDeliverer.get                    *)
(***************************************************************************)
\* the S3 calls of the last put/get after its bucket listing
calls_of(op) == {i \in DOMAIN dd_call.calls : dd_call.calls[i].op = op}

\* C8: put on a project whose bucket does not exist fails with a storage
\* error before anything is transferred: no object listing, no folder
\* marker, no key-existence check and no upload_file in that call.
C8_PutMissingBucket ==
    (dd_call.op = "put" /\ ~bucket_exists) =>
        /\ dd_call.ret = [kind |-> "raise", value |-> "S3Error"]
        /\ calls_of("list_objects_v2") = {}
        /\ calls_of("put_object") = {}
        /\ calls_of("file_exists_in_bucket") = {}
        /\ calls_of("upload_file") = {}
        /\ objects = dd_call.before

C8_Witness ==
    /\ dd_call.op = "put"
    /\ ~bucket_exists
    /\ ~dd_call.spec_path.is_none
    /\ dd_call.ret.kind = "raise"
    /\ dd_count = MaxCalls

\* C9: get on a project whose bucket does not exist ends in an error (it
\* does not return normally), and no key-existence check or download is
\* attempted.
C9_GetMissingBucket ==
    (dd_call.op = "get" /\ ~bucket_exists) =>
        /\ dd_call.ret.kind = "raise"
        /\ calls_of("file_exists_in_bucket") = {}
        /\ calls_of("download_file") = {}

\* C10: put checks key existence before every write: when the check reports
\* the target key present, upload_file is not called, the objects under
\* that key stay as they were and put returns "File exists", not success;
\* upload_file is called only after a check of the same key in the same
\* call reported it absent.
C10_ExistenceBeforeWrite ==
    dd_call.op = "put" =>
        /\ \A i \in calls_of("upload_file") :
            \E j \in calls_of("file_exists_in_bucket") :
                /\ j < i
                /\ dd_call.calls[j].key = dd_call.calls[i].key
                /\ dd_call.calls[j].result = "False"
        /\ \A j \in calls_of("file_exists_in_bucket") :
            dd_call.calls[j].result = "True" =>
                /\ calls_of("upload_file") = {}
                /\ dd_call.ret = [kind |-> "return", value |-> "File exists"]
                /\ {k \in objects : startswith(k, dd_call.calls[j].key)}
                     = {k \in dd_call.before : startswith(k, dd_call.calls[j].key)}

C10_Witness ==
    /\ dd_call.op = "put"
    /\ calls_of("put_object") # {}
    /\ \E j \in calls_of("file_exists_in_bucket") : dd_call.calls[j].result = "True"
    /\ dd_call.ret.value = "File exists"

\* the folder part of an object key: the key up to and including its last "/"
RECURSIVE key_folder(_)
key_folder(key) ==
    IF key = <<>> THEN <<>>
    ELSE IF key[Len(key)] = Slash THEN key
    ELSE key_folder(SubSeq(key, 1, Len(key) - 1))

\* the key the last put call checked for existence and wrote to
target_key == dd_call.calls[CHOOSE j \in calls_of("file_exists_in_bucket") : TRUE].key

\* C11: in a put with a folder path on an existing bucket the folder marker
\* is ensured before the file is written: when an object whose key is the
\* folder prefix of the target key exists no marker is created, otherwise
\* one marker with that key is created, in both cases before upload_file
\* is attempted; with spec_path None no marker is created.
C11_MarkerBeforeWrite ==
    (dd_call.op = "put" /\ bucket_exists) =>
        /\ dd_call.spec_path.is_none => calls_of("put_object") = {}
        /\ \A i \in calls_of("upload_file") : \A j \in calls_of("put_object") : j < i
        /\ (~dd_call.spec_path.is_none /\ calls_of("file_exists_in_bucket") # {}) =>
            /\ key_folder(target_key) \in dd_call.before =>
                calls_of("put_object") = {}
            /\ key_folder(target_key) \notin dd_call.before =>
                /\ Cardinality(calls_of("put_object")) = 1
                /\ \A j \in calls_of("put_object") :
                    dd_call.calls[j].key = key_folder(target_key)
            /\ key_folder(target_key) \in objects

\* the last put call tried to upload and the upload failed
upload_failed(call) ==
    /\ call.op = "put"
    /\ \E i \in DOMAIN call.calls :
        call.calls[i].op = "upload_file" /\ call.calls[i].result = "raised"

\* C12: a failed upload of one file does not cancel its siblings: put
\* neither raises nor ends the process, it does not return a success
\* result and stores nothing under the file's key, another put can still
\* be made, and a later put of another file whose upload goes through
\* returns success with its object stored.
C12_FailedUploadConfined ==
    /\ upload_failed(dd_call) =>
        /\ dd_call.ret.kind = "return"
        /\ dd_call.ret.value # "Success"
        /\ target_key \in objects => target_key \in dd_call.before
        /\ dd_count < MaxCalls => ENABLED put
    /\ (dd_call.op = "put" /\ upload_failed(dd_call.prev)
            /\ dd_call.prev.target # dd_call.file) =>
        \A i \in calls_of("upload_file") :
            dd_call.calls[i].result = "ok" =>
                /\ dd_call.ret = [kind |-> "return", value |-> "Success"]
                /\ dd_call.calls[i].key \in objects

C12_Witness ==
    /\ dd_call.op = "put"
    /\ upload_failed(dd_call.prev)
    /\ dd_call.prev.target # dd_call.file
    /\ dd_call.ret.value = "Success"

\* the call was a get that ended normally with no download failing
get_succeeded(call) ==
    /\ call.op = "get"
    /\ call.ret = [kind |-> "return", value |-> "None"]
    /\ \A i \in DOMAIN call.calls : call.calls[i].result # "raised"

\* C13: get downloads a key only when its local target does not exist: no
\* download_file call of a get writes to a path that was there before the
\* call, and a get that follows a successful get of the same path
\* downloads nothing, changes no local file and returns without error.
C13_GetIdempotent ==
    dd_call.op = "get" =>
        /\ \A i \in calls_of("download_file") :
            path_parts(dd_call.calls[i].key)
                \notin dd_call.files_before \cup dd_call.dirs_before
        /\ (get_succeeded(dd_call.prev) /\ dd_call.prev.target = dd_call.path) =>
            /\ calls_of("download_file") = {}
            /\ dd_call.ret.kind = "return"
            /\ local_files = dd_call.files_before

C13_Witness ==
    /\ dd_call.op = "get"
    /\ get_succeeded(dd_call.prev)
    /\ dd_call.prev.target = dd_call.path
    /\ \E i \in DOMAIN dd_call.prev.calls : dd_call.prev.calls[i].op = "download_file"
    /\ calls_of("skip") # {}
    /\ calls_of("download_file") = {}

(***************************************************************************)
(* Claims about stream_from_file                                           *)
(***************************************************************************)
\* the digest of a whole byte string, computed in one piece from its end
RECURSIVE whole_file_digest(_)
whole_file_digest(content) ==
    IF content = <<>> THEN sha256_new
    ELSE sha256_byte(whole_file_digest(SubSeq(content, 1, Len(content) - 1)),
                     content[Len(content)])

\* C5: for a stream consumed to exhaustion without read errors the checksum
\* written into the entry is the digest of the complete raw content in both
\* branches; compressed=True yields the raw chunks unchanged and in order,
\* compressed=False yields the compressor's output while the checksum is
\* still the digest of the raw bytes.
C5_ChecksumOfRawContent ==
    (gen.pc = "exhausted" /\ ~gen.read_error /\ ~gen.compress_error) =>
        LET content == disk[gen.file]
            entry   == data[gen.file]
        IN  /\ entry.checksum = hexdigest(whole_file_digest(content))
            /\ entry.compressed =>
                /\ Flatten(gen.out) = content
                /\ \A i \in 1..Len(gen.out) :
                    /\ Len(gen.out[i]) = SEGMENT_SIZE_RAW \/ i = Len(gen.out)
                    /\ Len(gen.out[i]) \in 1..SEGMENT_SIZE_RAW
            /\ ~entry.compressed => Flatten(gen.out) = compress(content)

C5_Witness ==
    /\ gen.pc = "exhausted"
    /\ ~gen.read_error
    /\ ~gen.compress_error
    /\ ~data[gen.file].compressed
    /\ Len(disk[gen.file]) > SEGMENT_SIZE_RAW
    /\ data[gen.file].checksum = hexdigest(whole_file_digest(disk[gen.file]))
    /\ data[gen.file].checksum # hexdigest(whole_file_digest(Flatten(gen.out)))

\* C6: the entry's checksum is the empty string until its stream has run
\* to its end: while chunks are still being produced, and for a stream the
\* consumer abandons, it is empty; an exhausted stream has written it.
C6_ChecksumEmptyUntilExhausted ==
    /\ gen.pc # "exhausted" => \A k \in DOMAIN data : data[k].checksum = <<>>
    /\ gen.pc = "exhausted" =>
        /\ data[gen.file].checksum # <<>>
        /\ \A k \in DOMAIN data \ {gen.file} : data[k].checksum = <<>>

\* every chunk has been yielded, the consumer has not asked for the next
C6_Witness ==
    /\ gen.pc = "yielded"
    /\ ~data[gen.file].compressed
    /\ gen.pending = <<>>
    /\ Len(gen.out) > 1
    /\ data[gen.file].checksum = <<>>

\* what the stream yields when nothing fails
complete_output(file) ==
    IF data[file].compressed THEN read_file_from(disk[file], 0)
    ELSE compress_file(disk[file], chunk_count(disk[file]), FALSE)

\* C7: when a read of the raw file fails part-way, in either branch, the
\* failure is only logged, the yielded chunk sequence ends early and the
\* recorded digest reflects only the bytes read before the failure.
C7_ReadFailureEndsStream ==
    (/\ gen.pc = "exhausted"
     /\ gen.read_error
     /\ gen.hashed < Len(disk[gen.file])) =>
        /\ gen.out # complete_output(gen.file)
        /\ data[gen.file].checksum =
             hexdigest(whole_file_digest(SubSeq(disk[gen.file], 1, gen.hashed)))

(***************************************************************************)
(* Claims about create_upload_status_dict and check_previous_upload        *)
(***************************************************************************)
\* catalog keys the dedup result reports as already remote
reported_existing == DOMAIN catalog \cap DOMAIN existing_files

C2_OverwriteFlag ==
    lfh_pc = "status_created" =>
        \A x \in DOMAIN data :
            /\ data[x].overwrite <=> (x \in DOMAIN existing_files /\ overwrite)
            /\ data[x].overwrite => data[x].path_remote = existing_files[x]
            /\ ~data[x].overwrite => data[x].path_remote = catalog[x].path_remote

C2_Witness ==
    /\ lfh_pc = "status_created"
    /\ \E x \in DOMAIN data :
        /\ data[x].overwrite
        /\ data[x].path_remote # catalog[x].path_remote
    /\ \E y \in DOMAIN data : ~data[y].overwrite

\* C3: create_upload_status_dict creates exactly one pending status record
\* per entry that stays active and loses no entry: self.data and self.failed
\* are disjoint, together they hold the catalog's keys, and the status dict
\* has the keys of self.data.
C3_StatusRecords ==
    lfh_pc = "status_created" =>
        /\ DOMAIN status_dict = DOMAIN data
        /\ \A x \in DOMAIN status_dict :
            /\ status_dict[x].cancel = FALSE
            /\ status_dict[x].started = FALSE
            /\ status_dict[x].message = ""
            /\ status_dict[x].failed_op = None
            /\ status_dict[x].put = [started |-> FALSE, done |-> FALSE]
            /\ status_dict[x].add_file_db = [started |-> FALSE, done |-> FALSE]
        /\ DOMAIN data \cap DOMAIN failed = {}
        /\ DOMAIN data \cup DOMAIN failed = DOMAIN catalog

C3_Witness ==
    /\ lfh_pc = "status_created"
    /\ DOMAIN data # {}
    /\ DOMAIN failed # {}
    /\ DOMAIN status_dict = DOMAIN data

\* the response is a 2xx answer whose body is JSON with a "files" field
well_formed(resp) ==
    /\ ~resp.raised
    /\ resp.ok
    /\ resp.body.json
    /\ resp.body.has_files

\* C4: check_previous_upload returns a mapping only after a successful,
\* well-formed response; a transport exception, a non-2xx response, a body
\* that is not JSON and a JSON body without "files" all end the session
\* with nothing returned.
C4_DedupFatal ==
    response # NoResponse =>
        IF well_formed(response)
        THEN lfh_pc \in {"checked", "status_created"}
        ELSE /\ lfh_pc \in {"SystemExit", "os._exit"}
             /\ existing_files = <<>>
             /\ status_dict = <<>>
             /\ data = catalog

C4_Witness ==
    /\ response # NoResponse
    /\ ~response.raised
    /\ ~response.ok
    /\ response.body.json
    /\ response.body.has_files
    /\ ~response.body.files_null
    /\ DOMAIN response.body.files # {}
    /\ lfh_pc = "os._exit"

(***************************************************************************)
(* Claims about ProjectStatusManager.update_status                         *)
(***************************************************************************)
\* positions in the call's trace where it did op
ps_events_of(op) == {i \in DOMAIN ps_run.events : ps_run.events[i].op = op}

\* text occurs in a message given as its pieces
contains(message, text) == \E i \in DOMAIN message : message[i] = text

\* the call printed the confirmation message of the update endpoint
message_printed ==
    \E i \in ps_events_of("print") :
        ps_run.events[i].detail \in {returned_response_ok(ps_env.new_status), <<"None">>}

\* C21: update_status reports the outcome of the update request
\* faithfully: when the update endpoint answers with a non-success status
\* the call raises DDSCLIException containing "Failed to update project
\* status" and prints no confirmation message; the confirmation message
\* is printed only when the update request was made and succeeded.
C21_UpdateOutcomeFaithful ==
    ps_run.pc = "left" =>
        /\ (ps_events_of("post") # {} /\ ~response_ok(ps_env.post_code)) =>
            /\ ps_run.outcome.kind = "raise"
            /\ ps_run.outcome.value = "DDSCLIException"
            /\ contains(ps_run.outcome.message, "Failed to update project status")
            /\ ~message_printed
        /\ message_printed =>
            /\ response_ok(ps_env.post_code)
            /\ \E j \in ps_events_of("post") :
                \A i \in ps_events_of("print") : 
                    ps_run.events[i].detail \in
                        {returned_response_ok(ps_env.new_status), <<"None">>} => j < i
            /\ ps_run.outcome.kind = "return"

C21_Witness ==
    /\ ps_run.pc = "left"
    /\ ps_env.new_status = "Available"
    /\ ps_env.post_code = 403
    /\ ps_events_of("post") # {}
    /\ ps_run.outcome.value = "DDSCLIException"

\* the target status is one update_status asks a confirmation for
destructive == ps_env.new_status \in {"Archived", "Deleted"}

\* the trace starts with: fetch the project information, display it,
\* announce the change, ask the user
confirmed_first ==
    /\ Len(ps_run.events) >= 4
    /\ ps_run.events[1] = ps_event("get", <<"PROJ_INFO">>)
    /\ ps_run.events[2].op = "display"
    /\ ps_run.events[3].op = "print"
    /\ ps_run.events[4] = ps_event("ask", confirm_question(ps_env.new_status))

\* C22: for the target statuses Deleted and Archived update_status first
\* fetches and displays the project information and asks the user for
\* confirmation, and only then updates: a refusal ends the run with
\* SystemExit and no update; when the project information cannot be
\* fetched the call fails with DDSCLIException ("Failed to get project
\* information") and no update; only when the user accepts is the update
\* requested and its confirmation message printed.
C22_ConfirmBeforeDestructiveUpdate ==
    (ps_run.pc = "left" /\ destructive) =>
        /\ ps_run.events # <<>> /\ ps_run.events[1] = ps_event("get", <<"PROJ_INFO">>)
        /\ ~response_ok(ps_env.get_code) =>
            /\ ps_run.outcome.kind = "raise"
            /\ ps_run.outcome.value = "DDSCLIException"
            /\ contains(ps_run.outcome.message, "Failed to get project information")
            /\ ps_events_of("post") = {}
        /\ (ps_events_of("ask") # {} /\ ~ps_env.confirm) =>
            /\ ps_run.outcome.kind = "raise"
            /\ ps_run.outcome.value = "SystemExit"
            /\ ps_events_of("post") = {}
            /\ ~message_printed
        /\ (ps_events_of("post") # {} \/ message_printed) =>
            /\ confirmed_first
            /\ ps_env.confirm
            /\ \A j \in ps_events_of("post") : j > 4
        /\ (confirmed_first /\ ps_env.confirm) =>
            /\ ps_events_of("post") # {}
            /\ response_ok(ps_env.post_code) => message_printed

C22_Witness ==
    /\ ps_run.pc = "left"
    /\ ps_env.new_status = "Deleted"
    /\ confirmed_first
    /\ ~ps_env.confirm
    /\ ps_run.outcome.value = "SystemExit"

(***************************************************************************)
(* Claims about DataDeliverer.__init__                                     *)
(***************************************************************************)
staging_tree == {StagingDirs[i] : i \in 1..Len(StagingDirs)}

\* C14: staging directory creation is all-or-nothing: when creating one of
\* files/, keys/, meta/, logs/ fails, every directory created so far is
\* removed and the session aborts, and in no outcome of the call does a
\* partial staging tree remain on disk.
C14_AllOrNothing ==
    "create_directories" \in dd_self.called =>
        /\ (\E i \in DOMAIN dd_self.mkdirs :
                ~dd_self.mkdirs[i].ok /\ dd_self.mkdirs[i].dir \in StagingChildren) =>
            /\ cwd_dirs = {}
            /\ dd_self.exc = "SystemExit"
        /\ cwd_dirs \in {{}, staging_tree}

\* the directories create_directories made itself
created_by_call ==
    {dd_self.mkdirs[i].dir : i \in {j \in DOMAIN dd_self.mkdirs : dd_self.mkdirs[j].ok}}

\* C23: create_directories reports success only for a complete tree:
\* whenever it returns (True, dirs) the staging root and files/, keys/,
\* meta/, logs/ exist on disk and were created by this call; it never
\* returns True after the root's mkdir failed, and it never removes a
\* directory that existed before the call.
C23_TrueOnlyForCompleteTree ==
    "create_directories" \in dd_self.called =>
        /\ dd_self.dirs_created = "True" =>
            /\ cwd_dirs = staging_tree
            /\ created_by_call = staging_tree
            /\ \A i \in DOMAIN dd_self.mkdirs :
                dd_self.mkdirs[i].dir = temp_dir => dd_self.mkdirs[i].ok
        /\ dd_self.dirs_before \subseteq cwd_dirs

\* every path the user entered, --data first, then the pathfile lines
raw_inputs ==
    (IF dd_args.data.is_none THEN <<>> ELSE dd_args.data.items)
    \o (IF dd_args.pathfile.is_none THEN <<>>
        ELSE IF ~dd_args.pathfile.exists THEN <<>>
        ELSE [i \in DOMAIN dd_args.pathfile.lines |-> str_strip(dd_args.pathfile.lines[i])])

\* two inputs name the same thing: in put mode the same existing file, or
\* the same text when neither exists; in get mode the same text
same_target(x, y) ==
    IF dd_args.method = "put" /\ exists(x) /\ exists(y)
    THEN SelectSeq(path_parts(x), not_dot) = SelectSeq(path_parts(y), not_dot)
    ELSE IF dd_args.method = "put" /\ exists(x) # exists(y) THEN FALSE
    ELSE x = y

duplicated_input ==
    \E i \in DOMAIN raw_inputs : \E j \in DOMAIN raw_inputs :
        i < j /\ same_target(raw_inputs[i], raw_inputs[j])

\* C17: data_to_deliver rejects duplicates as a hard error: it returns a
\* list only when every element occurs exactly once after resolution,
\* --data paths and pathfile lines counted together (two spellings of one
\* existing file and a repeated unresolved input included); with a
\* duplicate it raises and self.data stays None.
C17_DuplicatesRejected ==
    "data_to_deliver" \in dd_self.called =>
        /\ ~dd_self.data.is_none =>
            \A i \in DOMAIN dd_self.data.items :
                count(dd_self.data.items, dd_self.data.items[i]) = 1
        /\ dd_args.method \in {"put", "get"} =>
            /\ ~dd_self.data.is_none =>
                /\ ~duplicated_input
                /\ Len(dd_self.data.items) = Len(raw_inputs)
            /\ duplicated_input =>
                /\ dd_self.data.is_none
                /\ dd_self.pc = "raised"
                /\ dd_self.exc \in {"DeliveryOptionException", "IOError"}

C17_Witness ==
    /\ "data_to_deliver" \in dd_self.called
    /\ dd_args.method = "put"
    /\ ~dd_args.data.is_none
    /\ dd_args.data.items = << <<"a">> >>
    /\ ~dd_args.pathfile.is_none
    /\ dd_args.pathfile.exists
    /\ dd_args.pathfile.lines = << <<".", "/", "a", Newline>> >>
    /\ dd_self.exc = "DeliveryOptionException"

\* the user gave no path at all: no --data path, and no pathfile or a
\* pathfile without lines
empty_input ==
    /\ falsy(dd_args.data)
    /\ IF dd_args.pathfile.is_none THEN TRUE
       ELSE IF dd_args.pathfile.exists THEN dd_args.pathfile.lines = <<>>
       ELSE FALSE

\* C18: an empty input catalog is session-fatal: when both the data set and
\* the pathfile are empty or absent, construction fails with an error
\* after the access checks, no staging directory is created and the S3
\* connection info is never fetched.
C18_EmptyInputFatal ==
    empty_input =>
        /\ dd_self.pc \in {"new", "access_granted", "raised"}
        /\ "create_directories" \notin dd_self.called
        /\ "get_info" \notin dd_self.called

(***************************************************************************)
(* Claims about the catalog LocalFileHandler.__init__ builds               *)
(***************************************************************************)
\* the existing files an input path stands for: itself, or every file below it
files_below(x) ==
    IF x \in TreeFiles THEN {x}
    ELSE {f \in TreeFiles :
            /\ Len(f.dir) > Len(x.dir)
            /\ SubSeq(f.dir, 1, Len(x.dir) + 1) = x.dir \o <<x.name[1]>>}

reachable_files == UNION {files_below(x) : x \in user_input}

\* C15: after construction the catalog has as many entries as there are
\* distinct existing files reachable from the input paths, and every such
\* file has its own entry (no two files share a catalog key).
C15_OneEntryPerFile ==
    lfh_pc = "constructed" =>
        /\ Cardinality(DOMAIN data) = Cardinality(reachable_files)
        /\ \A f \in reachable_files :
            \E k \in DOMAIN data : data[k].path_raw = AbsPath(File(f.dir, f.name))

\* C16: the catalog LocalFileHandler builds drops no non-existent input
\* silently: each one is kept, in self.data or self.failed, as an entry
\* that carries the original input.
C16_UnresolvedRetained ==
    lfh_pc = "constructed" =>
        \A x \in user_input :
            ~path_exists(x) =>
                \/ \E k \in DOMAIN data : data[k].path_raw = AbsPath(File(x.dir, x.name))
                \/ \E k \in DOMAIN failed : failed[k].path_raw = AbsPath(File(x.dir, x.name))

\* C19: the processed name of a catalog entry is the complete original
\* file name (stem and every suffix, each once), then "zst" exactly when
\* the file is not already compressed, then "ccp".
C19_ProcessedName ==
    \A k \in DOMAIN catalog :
        catalog[k].path_processed.name =
            k[2] \o (IF catalog[k].compressed THEN <<>> ELSE <<"zst">>) \o <<"ccp">>

\* C20: no two catalog entries have the same path_remote, whatever hex
\* prefixes were drawn: after catalog building and after
\* create_upload_status_dict replaced the remote paths of overwritten
\* entries.
C20_RemotePathsUnique ==
    \A k1 \in DOMAIN data : \A k2 \in DOMAIN data :
        k1 # k2 => data[k1].path_remote # data[k2].path_remote

====
